---- MODULE Spec2Model ----
(***************************************************************************)
(* A model of merge.py: the directory scan, the natural ordering of the    *)
(* video files, the ffconcat manifest, the two-strategy ffmpeg executor    *)
(* and the orchestration in main() with its try/finally cleanup.           *)
(*                                                                         *)
(* Strings are sequences of one-character strings, so that splitting,      *)
(* lower-casing, path normalisation and comparison are computed the way    *)
(* the Python code computes them.                                          *)
(***************************************************************************)
EXTENDS Integers, Sequences, FiniteSets, TLC

(***************************************************************************)
(* Bounds of the model.                                                    *)
(***************************************************************************)
\* how many entries the working directory holds before the first run
MaxFiles == 3
\* how many times main() is run in the same directory
MaxRuns == 2
\* how long the file names are that the manifest line is studied on
MaxNameLen == 3
\* how many poll requests of one wait_for_completion may fail
MaxPollFailures == 2

(***************************************************************************)
(* Characters.                                                             *)
(***************************************************************************)
\* the characters the model's names use, in code-point order
Ascii ==
  << "'", ".", "/",
     "0", "1", "2", "3", "4", "5", "6", "7", "8", "9",
     "A", "B", "C", "D", "E", "F", "G", "H", "I", "J", "K", "L", "M",
     "N", "O", "P", "Q", "R", "S", "T", "U", "V", "W", "X", "Y", "Z",
     "_",
     "a", "b", "c", "d", "e", "f", "g", "h", "i", "j", "k", "l", "m",
     "n", "o", "p", "q", "r", "s", "t", "u", "v", "w", "x", "y", "z" >>

\* U+00B2, superscript two, written as one character of the model: a
\* character str.isdigit accepts, \d does not match and int() rejects
SuperscriptTwo == "sup2"

\* every character of the model, in code-point order
CodePoints == Ascii \o <<SuperscriptTwo>>

\* the rank of a character in code-point order (str comparison compares these)
Ord(c) == CHOOSE i \in 1..Len(CodePoints) : CodePoints[i] = c

Digits == <<"0", "1", "2", "3", "4", "5", "6", "7", "8", "9">>

\* "0".."9" are the characters \d matches here
IsDigit(c) == \E i \in 1..10 : Digits[i] = c

\* the characters str.isdigit accepts: the decimal digits and the other
\* characters with the Unicode property Numeric_Type=Digit
IsDigitChar(c) == IsDigit(c) \/ c = SuperscriptTwo

DigitVal(c) == (CHOOSE i \in 1..10 : Digits[i] = c) - 1

\* str.lower on one character
LowerChar(c) ==
  IF Ord(c) >= Ord("A") /\ Ord(c) <= Ord("Z")
    THEN Ascii[Ord("a") + (Ord(c) - Ord("A"))]
    ELSE c

\* str.lower
Lower(s) == [i \in 1..Len(s) |-> LowerChar(s[i])]

\* str.isdigit: non-empty and every character a digit
StrIsDigit(s) == Len(s) > 0 /\ \A i \in 1..Len(s) : IsDigitChar(s[i])

\* int(text) raises ValueError unless text is a run of decimal digits
IntRaises(s) == Len(s) = 0 \/ \E i \in 1..Len(s) : ~IsDigit(s[i])

RECURSIVE IntOf(_)
\* int(text) of a digit run
IntOf(s) ==
  IF Len(s) = 0 THEN 0
  ELSE 10 * IntOf(SubSeq(s, 1, Len(s) - 1)) + DigitVal(s[Len(s)])

\* str.startswith
StartsWith(s, p) == Len(s) >= Len(p) /\ SubSeq(s, 1, Len(p)) = p

\* the sequence s without its first n elements
Drop(s, n) == SubSeq(s, n + 1, Len(s))

\* the set of elements of a sequence
Range(s) == {s[i] : i \in 1..Len(s)}

\* the positions of character c in s
Positions(s, c) == {i \in 1..Len(s) : s[i] = c}

SetMax(S) == CHOOSE x \in S : \A y \in S : y <= x

SetMin(S) == CHOOSE x \in S : \A y \in S : x <= y

(***************************************************************************)
(* os.path, as merge.py uses it (posixpath).                               *)
(***************************************************************************)
RECURSIVE SplitOn(_, _)
\* str.split(sep) for a one-character separator
SplitOn(s, sep) ==
  IF Positions(s, sep) = {} THEN <<s>>
  ELSE LET i == SetMin(Positions(s, sep))
       IN  <<SubSeq(s, 1, i - 1)>> \o SplitOn(Drop(s, i), sep)

RECURSIVE JoinWith(_, _)
\* sep.join(parts)
JoinWith(parts, sep) ==
  IF Len(parts) = 0 THEN <<>>
  ELSE IF Len(parts) = 1 THEN parts[1]
  ELSE parts[1] \o <<sep>> \o JoinWith(Tail(parts), sep)

\* os.path.join(a, b)
PathJoin(a, b) ==
  IF StartsWith(b, <<"/">>) THEN b
  ELSE IF Len(a) = 0 \/ a[Len(a)] = "/" THEN a \o b
  ELSE a \o <<"/">> \o b

RECURSIVE NormComps(_, _, _)
\* the loop of posixpath.normpath over the components still to read
NormComps(comps, new_comps, initial_slashes) ==
  IF Len(comps) = 0 THEN new_comps
  ELSE LET comp == Head(comps)
           rest == Tail(comps)
       IN  IF comp = <<>> \/ comp = <<".">>
             THEN NormComps(rest, new_comps, initial_slashes)
           ELSE IF \/ comp # <<".", ".">>
                   \/ (initial_slashes = 0 /\ Len(new_comps) = 0)
                   \/ (Len(new_comps) > 0 /\ new_comps[Len(new_comps)] = <<".", ".">>)
             THEN NormComps(rest, Append(new_comps, comp), initial_slashes)
           ELSE IF Len(new_comps) > 0
             THEN NormComps(rest, SubSeq(new_comps, 1, Len(new_comps) - 1), initial_slashes)
           ELSE NormComps(rest, new_comps, initial_slashes)

\* os.path.normpath(path)
NormPath(path) ==
  IF Len(path) = 0 THEN <<".">>
  ELSE LET initial_slashes ==
             IF ~StartsWith(path, <<"/">>) THEN 0
             ELSE IF StartsWith(path, <<"/", "/">>) /\ ~StartsWith(path, <<"/", "/", "/">>)
               THEN 2
             ELSE 1
           body == JoinWith(NormComps(SplitOn(path, "/"), <<>>, initial_slashes), "/")
           joined == [i \in 1..initial_slashes |-> "/"] \o body
       IN  IF Len(joined) = 0 THEN <<".">> ELSE joined

\* os.getcwd(): the working directory of every run
Cwd == <<"/", "w">>

\* os.path.abspath(path)
AbsPath(path) ==
  IF StartsWith(path, <<"/">>) THEN NormPath(path)
  ELSE NormPath(PathJoin(Cwd, path))

\* os.path.splitext(p): [root, ext]; leading dots of the last component are
\* not an extension
SplitExt(p) ==
  LET sepIndex == IF Positions(p, "/") = {} THEN 0 ELSE SetMax(Positions(p, "/"))
      dotIndex == IF Positions(p, ".") = {} THEN 0 ELSE SetMax(Positions(p, "."))
      hasExt == /\ dotIndex > sepIndex
                /\ \E k \in (sepIndex + 1)..(dotIndex - 1) : p[k] # "."
  IN  IF hasExt
        THEN [root |-> SubSeq(p, 1, dotIndex - 1), ext |-> SubSeq(p, dotIndex, Len(p))]
        ELSE [root |-> p, ext |-> <<>>]

\* os.path.dirname and os.path.basename of a normalised absolute path
DirName(p) ==
  LET i == SetMax(Positions(p, "/")) IN IF i = 1 THEN <<"/">> ELSE SubSeq(p, 1, i - 1)

BaseName(p) == Drop(p, SetMax(Positions(p, "/")))

(***************************************************************************)
(* The file system: a function from the normalised absolute paths that     *)
(* exist to [kind, size, data]; data is the text of a manifest.            *)
(***************************************************************************)
RegularFile == [kind |-> "file", size |-> 1, data |-> <<>>]

EmptyFile == [kind |-> "file", size |-> 0, data |-> <<>>]

Directory == [kind |-> "dir", size |-> 0, data |-> <<>>]

\* os.path.exists(path)
Exists(f, path) == path \in DOMAIN f

\* os.path.isfile(path): false, not an error, for a path that does not exist
IsFile(f, path) == Exists(f, path) /\ f[path].kind = "file"

\* os.path.getsize(path)
GetSize(f, path) == f[path].size

\* the file system with path created or replaced
WriteFile(f, path, rec) ==
  [q \in (DOMAIN f) \cup {path} |-> IF q = path THEN rec ELSE f[q]]

\* os.remove(path)
RemoveFile(f, path) == [q \in (DOMAIN f) \ {path} |-> f[q]]

\* os.listdir(dir), as the set of names; the order is drawn where it is used
ListDir(f, dir) == {BaseName(p) : p \in {q \in DOMAIN f : DirName(q) = dir}}

(***************************************************************************)
(* merge.py: the pure functions.                                           *)
(***************************************************************************)
SUPPORTED_EXTENSIONS ==
  { <<".", "m", "p", "4">>, <<".", "m", "o", "v">>, <<".", "m", "k", "v">>,
    <<".", "a", "v", "i">>, <<".", "w", "e", "b", "m">>, <<".", "m", "4", "v">>,
    <<".", "t", "s">>, <<".", "m", "t", "s">>, <<".", "m", "2", "t", "s">>,
    <<".", "3", "g", "p">> }

\* a variant of is_video_file that compares the extension as it is spelled
is_video_file_case_sensitive(f, path) ==
  IF ~IsFile(f, path) THEN FALSE
  ELSE SplitExt(path).ext \in SUPPORTED_EXTENSIONS

is_video_file(f, path) ==
  IF ~IsFile(f, path) THEN FALSE
  ELSE Lower(SplitExt(path).ext) \in SUPPORTED_EXTENSIONS

\* the longest prefix of s whose characters all satisfy (digit = d)
RunLen(s, d) ==
  IF \A i \in 1..Len(s) : IsDigit(s[i]) = d THEN Len(s)
  ELSE SetMin({i \in 1..Len(s) : IsDigit(s[i]) # d}) - 1

RECURSIVE ReSplitDigits(_)
\* re.split(r"(\d+)", s): text, digits, text, ..., text
ReSplitDigits(s) ==
  LET t == RunLen(s, FALSE)
      rest == Drop(s, t)
      d == RunLen(rest, TRUE)
  IN  IF Len(rest) = 0 THEN <<SubSeq(s, 1, t)>>
      ELSE <<SubSeq(s, 1, t), SubSeq(rest, 1, d)>> \o ReSplitDigits(Drop(rest, d))

\* one element of a key: an int or a lower-cased str; raised marks the
\* element whose int(text) raises ValueError
KeyElem(text) ==
  IF StrIsDigit(text)
    THEN IF IntRaises(text)
           THEN [isnum |-> TRUE, n |-> 0, s |-> <<>>, raised |-> TRUE]
           ELSE [isnum |-> TRUE, n |-> IntOf(text), s |-> <<>>, raised |-> FALSE]
  ELSE [isnum |-> FALSE, n |-> 0, s |-> Lower(text), raised |-> FALSE]

natural_sort_key(s) ==
  LET parts == ReSplitDigits(s) IN [i \in 1..Len(parts) |-> KeyElem(parts[i])]

\* natural_sort_key raised while building this key
KeyRaises(key) == \E i \in 1..Len(key) : key[i].raised

\* str < str: the first differing character decides, a proper prefix is smaller
StrLess(a, b) ==
  LET m == IF Len(a) < Len(b) THEN Len(a) ELSE Len(b)
      diff == {i \in 1..m : a[i] # b[i]}
  IN  IF diff = {} THEN Len(a) < Len(b)
      ELSE LET i == SetMin(diff) IN Ord(a[i]) < Ord(b[i])

\* a variant of KeyCmp in which a key that is a proper prefix of another is
\* not smaller than it
KeyCmpIgnoresLength(a, b) ==
  LET m == IF Len(a) < Len(b) THEN Len(a) ELSE Len(b)
      diff == {i \in 1..m : a[i] # b[i]}
  IN  IF diff = {} THEN "ge"
      ELSE LET i == SetMin(diff)
           IN  IF a[i].isnum # b[i].isnum THEN "err"
               ELSE IF a[i].isnum THEN (IF a[i].n < b[i].n THEN "lt" ELSE "ge")
               ELSE (IF StrLess(a[i].s, b[i].s) THEN "lt" ELSE "ge")

\* list < list on two keys: "lt", "ge", or "err" for the TypeError of
\* comparing an int with a str
KeyCmp(a, b) ==
  LET m == IF Len(a) < Len(b) THEN Len(a) ELSE Len(b)
      diff == {i \in 1..m : a[i] # b[i]}
  IN  IF diff = {} THEN (IF Len(a) < Len(b) THEN "lt" ELSE "ge")
      ELSE LET i == SetMin(diff)
           IN  IF a[i].isnum # b[i].isnum THEN "err"
               ELSE IF a[i].isnum THEN (IF a[i].n < b[i].n THEN "lt" ELSE "ge")
               ELSE (IF StrLess(a[i].s, b[i].s) THEN "lt" ELSE "ge")

KeyLess(a, b) == KeyCmp(a, b) = "lt"

RECURSIVE Decorate(_)
\* list.sort(key=...) computes the key of every element once, up front
Decorate(names) ==
  IF Len(names) = 0 THEN <<>>
  ELSE <<[key |-> natural_sort_key(Head(names)), val |-> Head(names)]>>
       \o Decorate(Tail(names))

\* a variant of InsertByKey that places x before the elements with an equal key
InsertBeforeEqual(sorted, x) ==
  LET later == {i \in 1..Len(sorted) : ~KeyLess(sorted[i].key, x.key)}
      at == IF later = {} THEN Len(sorted) + 1 ELSE SetMin(later)
  IN  SubSeq(sorted, 1, at - 1) \o <<x>> \o SubSeq(sorted, at, Len(sorted))

\* x placed after every element of the sorted list whose key is not greater
InsertByKey(sorted, x) ==
  LET later == {i \in 1..Len(sorted) : KeyLess(x.key, sorted[i].key)}
      at == IF later = {} THEN Len(sorted) + 1 ELSE SetMin(later)
  IN  SubSeq(sorted, 1, at - 1) \o <<x>> \o SubSeq(sorted, at, Len(sorted))

RECURSIVE SortFrom(_, _)
SortFrom(sorted, todo) ==
  IF Len(todo) = 0 THEN sorted
  ELSE SortFrom(InsertByKey(sorted, Head(todo)), Tail(todo))

\* list.sort(key=natural_sort_key): a stable sort on the keys
SortNatural(names) ==
  LET sorted == SortFrom(<<>>, Decorate(names))
  IN  [i \in 1..Len(sorted) |-> sorted[i].val]

\* list.sort raises: ValueError from a key function call, or TypeError
\* when two keys cannot be compared
SortRaises(names) ==
  LET d == Decorate(names)
  IN  \/ \E i \in 1..Len(d) : KeyRaises(d[i].key)
      \/ \E i, j \in 1..Len(d) : KeyCmp(d[i].key, d[j].key) = "err"

(***************************************************************************)
(* merge.py: the manifest.                                                 *)
(***************************************************************************)
RECURSIVE EscapeQuotesBackslashOnly(_)
\* a variant of EscapeQuotes that writes \' without leaving the quoted string
EscapeQuotesBackslashOnly(s) ==
  IF Len(s) = 0 THEN <<>>
  ELSE (IF Head(s) = "'" THEN <<"\\", "'">> ELSE <<Head(s)>>)
       \o EscapeQuotesBackslashOnly(Tail(s))

RECURSIVE EscapeQuotes(_)
\* abs_path.replace("'", "'\\''")
EscapeQuotes(s) ==
  IF Len(s) = 0 THEN <<>>
  ELSE (IF Head(s) = "'" THEN <<"'", "\\", "'", "'">> ELSE <<Head(s)>>)
       \o EscapeQuotes(Tail(s))

\* f"file '{escaped}'\n"
ManifestLine(p) ==
  <<"f", "i", "l", "e", " ", "'">> \o EscapeQuotes(AbsPath(p)) \o <<"'", "\n">>

\* a variant of ManifestLines that writes the lines last path first
ManifestLinesReversed(file_paths) ==
  [i \in 1..Len(file_paths) |-> ManifestLine(file_paths[Len(file_paths) + 1 - i])]

\* the text build_filelist_file writes: one line per path, in list order
ManifestLines(file_paths) == [i \in 1..Len(file_paths) |-> ManifestLine(file_paths[i])]

\* the name tempfile gives the k-th candidate manifest in directory
TempName(directory, k) ==
  PathJoin(directory,
           <<"t", "m", "p", Digits[k + 1]>>
           \o <<"_", "f", "f", "c", "o", "n", "c", "a", "t", ".", "t", "x", "t">>)

\* NamedTemporaryFile(dir=directory, suffix="_ffconcat.txt").name: a name
\* that does not exist yet
FreshTemp(f, directory) ==
  TempName(directory, SetMin({k \in 1..9 : ~Exists(f, TempName(directory, k))}))

\* the manifest file once every line is written and the file closed
ManifestFile(file_paths) ==
  [kind |-> "file", size |-> Len(file_paths), data |-> ManifestLines(file_paths)]

(***************************************************************************)
(* merge.py: the decisions of run_ffmpeg_concat and main.                  *)
(***************************************************************************)
\* a variant of MeetsCriterion that trusts the exit status and a file being there
MeetsCriterionNoSize(returncode, f, output) == returncode = 0 /\ Exists(f, output)

\* the success criterion of one attempt (lines 78 and 109)
MeetsCriterion(returncode, f, output) ==
  returncode = 0 /\ Exists(f, output) /\ GetSize(f, output) > 0

\* a variant of AfterCopy without the early return
AfterCopyFallsThrough(succeeded) == "AttemptReencode"

\* where run_ffmpeg_concat goes after the stream-copy attempt: it returns
\* on success and falls through to the re-encode attempt otherwise
AfterCopy(succeeded) == IF succeeded THEN "Success" ELSE "AttemptReencode"

\* a variant of Diagnostic that prefers the second attempt's error text
DiagnosticSecondFirst(stderr1, stderr2) ==
  IF stderr2 # "" THEN stderr2
  ELSE IF stderr1 # "" THEN stderr1
  ELSE "Unknown error from ffmpeg"

\* result.stderr or result2.stderr or "Unknown error from ffmpeg"
Diagnostic(stderr1, stderr2) ==
  IF stderr1 # "" THEN stderr1
  ELSE IF stderr2 # "" THEN stderr2
  ELSE "Unknown error from ffmpeg"

\* a variant of AfterReencode that lets the first attempt's error text fail
\* a successful re-encode
AfterReencodeKeepsFirstError(succeeded, stderr1, stderr2) ==
  IF succeeded /\ stderr1 = "" THEN [ok |-> TRUE, msg |-> "Merged with re-encode."]
  ELSE [ok |-> FALSE, msg |-> Diagnostic(stderr1, stderr2)]

\* what run_ffmpeg_concat returns after the re-encode attempt
AfterReencode(succeeded, stderr1, stderr2) ==
  IF succeeded THEN [ok |-> TRUE, msg |-> "Merged with re-encode."]
  ELSE [ok |-> FALSE, msg |-> Diagnostic(stderr1, stderr2)]

\* a variant of ToolMissing that never notices a missing tool
ToolMissingIgnored(isFound) == FALSE

\* which("ffmpeg") is None
ToolMissing(isFound) == ~isFound

\* a variant of TooFew that lets a single input through
TooFewOffByOne(files) == Len(files) < 1

\* not video_files or len(video_files) < 2
TooFew(files) == Len(files) = 0 \/ Len(files) < 2

\* a variant of Candidates that takes every entry, flag or no flag
CandidatesAll(entries, include_hidden) == entries

\* [f for f in os.listdir(cwd) if args.include_hidden or not f.startswith(".")]
Candidates(entries, include_hidden) ==
  {f \in entries : include_hidden \/ ~StartsWith(f, <<".">>)}

\* [f for f in candidates if is_video_file(os.path.join(cwd, f))]
VideoFiles(f, candidates) == {n \in candidates : is_video_file(f, PathJoin(Cwd, n))}

\* merged_<ts>.mp4; the timestamp is modelled by one digit, the second
\* datetime.now() falls in
DefaultOutputName(ts) ==
  <<"m", "e", "r", "g", "e", "d", "_", Digits[ts + 1], ".", "m", "p", "4">>

\* args.output if given (and not empty), else the timestamped default
OutputName(output, ts) == IF output # <<>> THEN output ELSE DefaultOutputName(ts)

\* os.path.abspath(os.path.join(cwd, output_name))
OutputPath(output_name) == AbsPath(PathJoin(Cwd, output_name))

\* a variant of ExcludeOutput that keeps every file
ExcludeOutputKeepsAll(files, out) == files

\* [f for f in video_files if abspath(join(cwd, f)) != output_path]
ExcludeOutput(files, out) ==
  LET Keep(n) == AbsPath(PathJoin(Cwd, n)) # out IN SelectSeq(files, Keep)

\* a variant of ReturnCode that reports success whatever the outcome
ReturnCodeAlwaysZero(ok) == 0

\* the value main returns after run_ffmpeg_concat
ReturnCode(ok) == IF ok THEN 0 ELSE 2

\* what main prints on standard error after a failed merge
FailureReport(msg) ==
  IF msg # "" THEN <<"Failed to merge videos.", msg>> ELSE <<"Failed to merge videos.">>

\* a variant of CleanupFs that leaves the manifest where it is
CleanupFsKeeps(f, manifest) == f

\* the finally block, when os.remove does not raise
CleanupFs(f, manifest) == IF Exists(f, manifest) THEN RemoveFile(f, manifest) ELSE f

(***************************************************************************)
(* The state.                                                              *)
(***************************************************************************)
VARIABLES
  fs,            \* the file system
  args,          \* parse_args(): [output, include_hidden]; output <<>> is "not given"
  found,         \* whether ffmpeg is on the search path
  run,           \* which run of main() this is
  pc,            \* where main() is: start, scan, build, copy, reencode, cleanup, done
  listed,        \* whether this run has called os.listdir
  video_files,   \* main's video_files
  output_path,   \* main's output_path (<<>> before it is computed)
  list_file,     \* main's list_file (<<>> before build_filelist_file returns)
  created,       \* the manifest path this run's NamedTemporaryFile created (<<>>: none)
  execTrace,     \* the states run_ffmpeg_concat has been in
  calls,         \* the subprocess.run calls so far and what each left behind
  result,        \* what run_ffmpeg_concat returned: [ok, msg]; msg "" before
  pending,       \* what the try block is leaving with: none, return, raise
  removeFailed,  \* whether os.remove raised in the finally block
  status,        \* running, returned or raised
  exitCode,      \* the value main() returned (-1 before, and when it raised)
  printed,       \* the file names printed as progress lines
  stdout,        \* the other lines printed on standard output
  stderr,        \* the lines printed on standard error
  prev,          \* the previous run: [merged, inputs]
  given,         \* the input a pure function is studied on (<<>> in a run of main)
  computed,      \* <<>> before the function is applied, <<its result>> after
  vpc,             \* video_2.py: where generate_and_download is (off: not called)
  operation_name,  \* what generate_video returned ("" for None or an empty name)
  video_uri,       \* what wait_for_completion returned ("" for None or an empty URI)
  max_wait_time,   \* wait_for_completion's max_wait_time
  elapsed,         \* time.time() - start_time
  poll_interval,   \* wait_for_completion's poll_interval
  polls,           \* how many times requests.get was called on the operation
  failures,        \* how many of these calls raised RequestException
  poll_data,       \* data, the JSON of the last poll response: [error, done, body]
  waited,          \* how wait_for_completion ended: no, uri, error, nouri, timeout, raised
  steps,           \* the steps generate_and_download has started, in order
  ended,           \* generate_and_download: running, returned or raised
  success,         \* the value generate_and_download returned
  downloaded_size, \* download_video's downloaded_size, in chunks
  saved            \* the file at output_filename: [exists, size]

vars ==
  << fs, args, found, run, pc, listed, video_files, output_path, list_file,
     created, execTrace, calls, result, pending, removeFailed, status, exitCode,
     printed, stdout, stderr, prev, given, computed,
     vpc, operation_name, video_uri, max_wait_time, elapsed, poll_interval, polls,
     failures, poll_data, waited, steps, ended, success, downloaded_size, saved >>

\* the variables that only the studies of the pure functions change
pureVars == << given, computed >>

\* the variables of the Veo client of video_2.py
veoVars ==
  << vpc, operation_name, video_uri, max_wait_time, elapsed, poll_interval, polls,
     failures, poll_data, waited, steps, ended, success, downloaded_size, saved >>

\* no poll response yet
NoData == [error |-> FALSE, done |-> FALSE, body |-> "nokey"]

\* no file at output_filename
Absent == [exists |-> FALSE, size |-> 0]

\* video_2.py is not running
NoClient ==
  /\ vpc = "off"
  /\ operation_name = ""
  /\ video_uri = ""
  /\ max_wait_time = 0
  /\ elapsed = 0
  /\ poll_interval = 0
  /\ polls = 0
  /\ failures = 0
  /\ poll_data = NoData
  /\ waited = "no"
  /\ steps = <<>>
  /\ ended = "running"
  /\ success = FALSE
  /\ downloaded_size = 0
  /\ saved = Absent

\* the variables of one run that the scan leaves alone
execVars == << list_file, created, execTrace, calls, result, pending, removeFailed >>

(***************************************************************************)
(* The directories and arguments the runs start from.                      *)
(***************************************************************************)
\* the entries the working directory may hold before the first run: three
\* videos (two of them with equal sort keys), a hidden video, a text file
\* and a directory with a video extension
Universe ==
  { [name |-> <<"c", "2", ".", "m", "p", "4">>, rec |-> RegularFile],
    [name |-> <<"c", "1", "0", ".", "m", "p", "4">>, rec |-> RegularFile],
    [name |-> <<"C", "2", ".", "M", "P", "4">>, rec |-> RegularFile],
    [name |-> <<".", "h", ".", "m", "k", "v">>, rec |-> RegularFile],
    [name |-> <<"n", ".", "t", "x", "t">>, rec |-> RegularFile],
    [name |-> <<"d", ".", "m", "o", "v">>, rec |-> Directory] }

\* the file system holding the entries S in the working directory
FsOf(S) ==
  [p \in {PathJoin(Cwd, e.name) : e \in S} |->
     (CHOOSE e \in S : PathJoin(Cwd, e.name) = p).rec]

\* --output: not given, a new name, or a spelling of an existing input
OutputArgs ==
  { <<>>,
    <<"m", ".", "m", "p", "4">>,
    <<".", "/", "c", "2", ".", "m", "p", "4">> }

RECURSIVE Orderings(_)
\* every order os.listdir may return the names S in
Orderings(S) ==
  IF S = {} THEN {<<>>}
  ELSE UNION {{<<x>> \o t : t \in Orderings(S \ {x})} : x \in S}

NoPrev == [merged |-> FALSE, inputs |-> <<>>]

Init ==
  /\ fs \in {FsOf(S) : S \in {T \in SUBSET Universe : Cardinality(T) <= MaxFiles}}
  /\ args \in [output : OutputArgs, include_hidden : BOOLEAN]
  /\ found \in BOOLEAN
  /\ run = 1
  /\ pc = "start"
  /\ listed = FALSE
  /\ video_files = <<>>
  /\ output_path = <<>>
  /\ list_file = <<>>
  /\ created = <<>>
  /\ execTrace = <<>>
  /\ calls = <<>>
  /\ result = [ok |-> FALSE, msg |-> ""]
  /\ pending = "none"
  /\ removeFailed = FALSE
  /\ status = "running"
  /\ exitCode = -1
  /\ printed = <<>>
  /\ stdout = <<>>
  /\ stderr = <<>>
  /\ prev = NoPrev
  /\ given = <<>>
  /\ computed = <<>>
  /\ NoClient

(***************************************************************************)
(* main(), lines 132-135: the tool check.                                  *)
(***************************************************************************)
CheckTool ==
  /\ pc = "start"
  /\ IF ToolMissing(found)
       THEN /\ stderr' = stderr \o << "Error: ffmpeg is not installed or not in PATH.",
                                      "Install via Homebrew: brew install ffmpeg" >>
            /\ exitCode' = 1
            /\ status' = "returned"
            /\ pc' = "done"
       ELSE /\ pc' = "scan"
            /\ UNCHANGED << stderr, exitCode, status >>
  /\ UNCHANGED << fs, args, found, run, listed, video_files, output_path,
                  printed, stdout, prev >>
  /\ UNCHANGED execVars
  /\ UNCHANGED pureVars
  /\ UNCHANGED veoVars

(***************************************************************************)
(* main(), lines 137-168: list, filter, sort, resolve the output, exclude  *)
(* it, and print the merge order.  os.listdir returns the names in an      *)
(* arbitrary order and both comprehensions keep the relative order, so the *)
(* order of the surviving names is drawn after the filters.  Two runs may  *)
(* fall in the same second or in different ones: the timestamp of run r is *)
(* drawn from 1..r.                                                        *)
(***************************************************************************)
Scan ==
  /\ pc = "scan"
  /\ listed' = TRUE
  /\ \E order \in Orderings(VideoFiles(fs, Candidates(ListDir(fs, Cwd), args.include_hidden))),
        ts \in 1..run :
       IF SortRaises(order)
         THEN /\ status' = "raised"
              /\ pc' = "done"
              /\ video_files' = order
              /\ UNCHANGED << output_path, printed, stdout, exitCode >>
       ELSE LET sorted == SortNatural(order)
                out == OutputPath(OutputName(args.output, ts))
                kept == ExcludeOutput(sorted, out)
            IN  IF TooFew(sorted)
                  THEN /\ video_files' = sorted
                       /\ stdout' = Append(stdout,
                            "Found fewer than 2 video files to merge. Nothing to do.")
                       /\ exitCode' = 0
                       /\ status' = "returned"
                       /\ pc' = "done"
                       /\ UNCHANGED << output_path, printed >>
                ELSE IF TooFew(kept)
                  THEN /\ video_files' = kept
                       /\ output_path' = out
                       /\ stdout' = Append(stdout,
                            "After filtering, fewer than 2 inputs remain. Nothing to do.")
                       /\ exitCode' = 0
                       /\ status' = "returned"
                       /\ pc' = "done"
                       /\ UNCHANGED printed
                ELSE /\ video_files' = kept
                     /\ output_path' = out
                     /\ stdout' = Append(stdout, "Merging the following files in order:")
                     /\ printed' = kept
                     /\ pc' = "build"
                     /\ UNCHANGED << exitCode, status >>
  /\ UNCHANGED << fs, args, found, run, stderr, prev >>
  /\ UNCHANGED execVars
  /\ UNCHANGED pureVars
  /\ UNCHANGED veoVars

(***************************************************************************)
(* build_filelist_file, called at line 170.                                *)
(***************************************************************************)
\* the paths main passes: [os.path.join(cwd, f) for f in video_files]
BuildArgs(files) == [i \in 1..Len(files) |-> PathJoin(Cwd, files[i])]

\* the manifest is created, written and closed; run_ffmpeg_concat is entered
BuildManifest ==
  /\ pc = "build"
  /\ LET name == FreshTemp(fs, Cwd)
     IN  /\ fs' = WriteFile(fs, name, ManifestFile(BuildArgs(video_files)))
         /\ list_file' = name
         /\ created' = name
  /\ execTrace' = <<"Start">>
  /\ pc' = "copy"
  /\ UNCHANGED << args, found, run, listed, video_files, output_path, calls,
                  result, pending, removeFailed, status, exitCode, printed, stdout,
                  stderr, prev >>
  /\ UNCHANGED pureVars
  /\ UNCHANGED veoVars

\* NamedTemporaryFile raises (the directory is not writable): no file is made
BuildCreateFails ==
  /\ pc = "build"
  /\ status' = "raised"
  /\ pc' = "done"
  /\ UNCHANGED << fs, args, found, run, listed, video_files, output_path,
                  exitCode, printed, stdout, stderr, prev >>
  /\ UNCHANGED execVars
  /\ UNCHANGED pureVars
  /\ UNCHANGED veoVars

\* a write or the closing flush raises after the file was created: the
\* exception leaves build_filelist_file, so main never binds list_file and
\* never enters its try block
BuildWriteFails ==
  /\ pc = "build"
  /\ \E k \in 0..(Len(video_files) - 1) :
       LET name == FreshTemp(fs, Cwd)
           lines == ManifestLines(BuildArgs(video_files))
       IN  /\ fs' = WriteFile(fs, name,
                      [kind |-> "file", size |-> k, data |-> SubSeq(lines, 1, k)])
           /\ created' = name
  /\ status' = "raised"
  /\ pc' = "done"
  /\ UNCHANGED << args, found, run, listed, video_files, output_path, list_file,
                  execTrace, calls, result, pending, removeFailed, exitCode, printed,
                  stdout, stderr, prev >>
  /\ UNCHANGED pureVars
  /\ UNCHANGED veoVars

(***************************************************************************)
(* run_ffmpeg_concat, lines 59-112, and main's report, lines 174-182.      *)
(***************************************************************************)
\* what one ffmpeg run may do to the output path: leave it as it is, leave
\* an empty file, or write a non-empty file
Effects == {"keep", "empty", "data"}

FfmpegWrites(f, output, effect) ==
  IF effect = "keep" THEN f
  ELSE IF effect = "empty" THEN WriteFile(f, output, EmptyFile)
  ELSE WriteFile(f, output, RegularFile)

\* a variant of CallRecord in which cmd_reencode names another manifest
CallRecordOtherManifest(strategy, returncode, err, f, output) ==
  [ strategy |-> strategy, returncode |-> returncode, stderr |-> err,
    manifest |-> IF strategy = "reencode" THEN TempName(Cwd, 9) ELSE list_file,
    output |-> output,
    exists |-> Exists(f, output),
    size |-> IF Exists(f, output) THEN GetSize(f, output) ELSE 0 ]

\* the record of one subprocess.run: the manifest and the output path its
\* command line names, what it returned and what os.path.exists /
\* os.path.getsize see right after it
CallRecord(strategy, returncode, err, f, output) ==
  [ strategy |-> strategy, returncode |-> returncode, stderr |-> err,
    manifest |-> list_file,
    output |-> output,
    exists |-> Exists(f, output),
    size |-> IF Exists(f, output) THEN GetSize(f, output) ELSE 0 ]

\* subprocess.run(cmd_copy) returns
AttemptCopy ==
  /\ pc = "copy"
  /\ \E returncode \in {0, 1}, err \in {"", "copy: error"}, effect \in Effects :
       LET f2 == FfmpegWrites(fs, output_path, effect)
           next == AfterCopy(MeetsCriterion(returncode, f2, output_path))
       IN  /\ fs' = f2
           /\ calls' = Append(calls, CallRecord("copy", returncode, err, f2, output_path))
           /\ IF next = "Success"
                THEN /\ execTrace' = execTrace \o <<"AttemptCopy", "Success">>
                     /\ result' = [ok |-> TRUE, msg |-> "Merged with stream copy."]
                     /\ stdout' = stdout \o <<"Merged with stream copy.", "Done: ">>
                     /\ pending' = "return"
                     /\ pc' = "cleanup"
                ELSE /\ execTrace' = Append(execTrace, "AttemptCopy")
                     /\ pc' = "reencode"
                     /\ UNCHANGED << result, stdout, pending >>
  /\ UNCHANGED << args, found, run, listed, video_files, output_path, list_file,
                  created, removeFailed, status, exitCode, printed, stderr, prev >>
  /\ UNCHANGED pureVars
  /\ UNCHANGED veoVars

\* subprocess.run(cmd_copy) raises (ffmpeg cannot be started)
CopyRaises ==
  /\ pc = "copy"
  /\ execTrace' = Append(execTrace, "AttemptCopy")
  /\ pending' = "raise"
  /\ pc' = "cleanup"
  /\ UNCHANGED << fs, args, found, run, listed, video_files, output_path,
                  list_file, created, calls, result, removeFailed, status, exitCode,
                  printed, stdout, stderr, prev >>
  /\ UNCHANGED pureVars
  /\ UNCHANGED veoVars

\* subprocess.run(cmd_reencode) returns
AttemptReencode ==
  /\ pc = "reencode"
  /\ \E returncode \in {0, 1}, err \in {"", "reencode: error"}, effect \in Effects :
       LET f2 == FfmpegWrites(fs, output_path, effect)
           res == AfterReencode(MeetsCriterion(returncode, f2, output_path),
                                IF Len(calls) > 0 THEN calls[1].stderr ELSE "", err)
       IN  /\ fs' = f2
           /\ calls' = Append(calls, CallRecord("reencode", returncode, err, f2, output_path))
           /\ result' = res
           /\ IF res.ok
                THEN /\ execTrace' = execTrace \o <<"AttemptReencode", "Success">>
                     /\ stdout' = stdout \o <<res.msg, "Done: ">>
                     /\ UNCHANGED stderr
                ELSE /\ execTrace' = execTrace \o <<"AttemptReencode", "Failure">>
                     /\ stderr' = stderr \o FailureReport(res.msg)
                     /\ UNCHANGED stdout
  /\ pending' = "return"
  /\ pc' = "cleanup"
  /\ UNCHANGED << args, found, run, listed, video_files, output_path, list_file,
                  created, removeFailed, status, exitCode, printed, prev >>
  /\ UNCHANGED pureVars
  /\ UNCHANGED veoVars

\* subprocess.run(cmd_reencode) raises
ReencodeRaises ==
  /\ pc = "reencode"
  /\ execTrace' = Append(execTrace, "AttemptReencode")
  /\ pending' = "raise"
  /\ pc' = "cleanup"
  /\ UNCHANGED << fs, args, found, run, listed, video_files, output_path,
                  list_file, created, calls, result, removeFailed, status, exitCode,
                  printed, stdout, stderr, prev >>
  /\ UNCHANGED pureVars
  /\ UNCHANGED veoVars

(***************************************************************************)
(* main(), lines 183-188: the finally block, then the return or the raise  *)
(* the try block left with.                                                *)
(***************************************************************************)
\* a variant of AfterFinally in which a failing os.remove replaces what the
\* try block left with
AfterFinallyEscalates(leaving, removeRaised) ==
  IF removeRaised THEN "raise" ELSE leaving

\* how main() leaves after the finally block: the way the try block was
\* leaving, whether os.remove raised or not (except Exception: pass)
AfterFinally(leaving, removeRaised) == leaving

Leave(removeRaised) ==
  /\ pc' = "done"
  /\ IF AfterFinally(pending, removeRaised) = "return"
       THEN status' = "returned" /\ exitCode' = ReturnCode(result.ok)
       ELSE status' = "raised" /\ UNCHANGED exitCode

\* os.path.exists and os.remove do not raise
Cleanup ==
  /\ pc = "cleanup"
  /\ fs' = CleanupFs(fs, list_file)
  /\ Leave(FALSE)
  /\ UNCHANGED << args, found, run, listed, video_files, output_path, list_file,
                  created, execTrace, calls, result, pending, removeFailed, printed,
                  stdout, stderr, prev >>
  /\ UNCHANGED pureVars
  /\ UNCHANGED veoVars

\* os.remove raises; except Exception: pass swallows it
CleanupRemoveFails ==
  /\ pc = "cleanup"
  /\ Exists(fs, list_file)
  /\ removeFailed' = TRUE
  /\ Leave(TRUE)
  /\ UNCHANGED << fs, args, found, run, listed, video_files, output_path,
                  list_file, created, execTrace, calls, result, pending, printed,
                  stdout, stderr, prev >>
  /\ UNCHANGED pureVars
  /\ UNCHANGED veoVars

(***************************************************************************)
(* The idempotence scenario: after a run that returned 0, main() is run    *)
(* again in the same directory with the same arguments.                    *)
(***************************************************************************)
Rerun ==
  /\ pc = "done"
  /\ status = "returned"
  /\ exitCode = 0
  /\ run < MaxRuns
  /\ run' = run + 1
  /\ prev' = [ merged |-> list_file # <<>>,
               inputs |-> IF list_file # <<>> THEN video_files ELSE <<>> ]
  /\ pc' = "start"
  /\ listed' = FALSE
  /\ video_files' = <<>>
  /\ output_path' = <<>>
  /\ list_file' = <<>>
  /\ created' = <<>>
  /\ execTrace' = <<>>
  /\ calls' = <<>>
  /\ result' = [ok |-> FALSE, msg |-> ""]
  /\ pending' = "none"
  /\ removeFailed' = FALSE
  /\ status' = "running"
  /\ exitCode' = -1
  /\ printed' = <<>>
  /\ stdout' = <<>>
  /\ stderr' = <<>>
  /\ UNCHANGED << fs, args, found >>
  /\ UNCHANGED pureVars
  /\ UNCHANGED veoVars

Next ==
  \/ CheckTool
  \/ Scan
  \/ BuildManifest
  \/ BuildCreateFails
  \/ BuildWriteFails
  \/ AttemptCopy
  \/ CopyRaises
  \/ AttemptReencode
  \/ ReencodeRaises
  \/ Cleanup
  \/ CleanupRemoveFails

\* one run of main()
Spec == Init /\ [][Next]_vars

\* one run of main() in which every subprocess.run comes back: main() is
\* blocked in line 77 or line 108 until ffmpeg has ended or could not be
\* started
SpecLive ==
  /\ Init
  /\ [][Next]_vars
  /\ WF_vars(AttemptCopy \/ CopyRaises)
  /\ WF_vars(AttemptReencode \/ ReencodeRaises)

NextRerun == Next \/ Rerun

\* the runs of the idempotence scenario: an explicit --output every time
InitRerun == Init /\ args.output # <<>>

\* main() run up to MaxRuns times in the same directory
SpecRerun == InitRerun /\ [][NextRerun]_vars

(***************************************************************************)
(* The properties.                                                         *)
(***************************************************************************)
\* the success criterion as the record of one call shows it
Met(call) == call.returncode = 0 /\ call.exists /\ call.size > 0

\* main() has left: it returned or an exception left it
Exited == pc = "done"

\* run_ffmpeg_concat has returned to main
ExecutorReturned == pending = "return"

IsPrefix(a, b) == Len(a) <= Len(b) /\ SubSeq(b, 1, Len(a)) = a

NoRepeats(seq) == \A i, j \in 1..Len(seq) : i # j => seq[i] # seq[j]

\* C1, as claimed: once main() has bound the manifest it created, the
\* manifest is not on disk when main() returns or raises, whichever way the
\* merge went.
C1_ManifestGoneOnEveryExit ==
  (Exited /\ list_file # <<>>) => ~Exists(fs, list_file)

\* C1, amended: once main() has bound the manifest it created, the manifest
\* is not on disk when main() returns or raises, whichever way the merge
\* went, unless os.remove itself raised in the finally block (that error is
\* swallowed and the manifest stays).
C1_ManifestGoneUnlessRemoveFails ==
  (Exited /\ list_file # <<>> /\ ~removeFailed) => ~Exists(fs, list_file)

\* C1, the case: the executor raised, and main() left with the manifest gone
C1_Witness ==
  /\ Exited
  /\ status = "raised"
  /\ list_file # <<>>
  /\ ~removeFailed
  /\ ~Exists(fs, list_file)

ExecutorPaths ==
  { <<"Start", "AttemptCopy", "Success">>,
    <<"Start", "AttemptCopy", "AttemptReencode", "Success">>,
    <<"Start", "AttemptCopy", "AttemptReencode", "Failure">> }

\* C2: the states of one run_ffmpeg_concat invocation follow
\* Start -> AttemptCopy -> {Success, AttemptReencode} -> {Success, Failure}
\* with no state twice; the stream-copy call is the first call, the re-encode
\* call happens only after a stream-copy call that missed the criterion, and
\* once the executor has returned it is in Success or Failure.
C2_CopyThenReencodeOnlyOnFailure ==
  /\ \E path \in ExecutorPaths : IsPrefix(execTrace, path)
  /\ NoRepeats(execTrace)
  /\ Len(calls) <= 2
  /\ Len(calls) >= 1 => calls[1].strategy = "copy"
  /\ Len(calls) = 2 => calls[2].strategy = "reencode" /\ ~Met(calls[1])
  /\ (\E i \in 1..Len(execTrace) : execTrace[i] = "AttemptReencode")
       => Len(calls) >= 1 /\ ~Met(calls[1])
  /\ (Len(calls) >= 1 /\ Met(calls[1]))
       => execTrace = <<"Start", "AttemptCopy", "Success">>
  /\ ExecutorReturned => execTrace \in ExecutorPaths

\* C2, the case: the stream copy failed and the re-encode succeeded
C2_Witness == execTrace = <<"Start", "AttemptCopy", "AttemptReencode", "Success">>

\* C3: run_ffmpeg_concat returns success exactly when one of its calls
\* exited zero and, right after that call, the output existed with a size
\* above zero; success by stream copy rests on the first call, success by
\* re-encode on the second.
C3_SuccessIffCriterion ==
  ExecutorReturned =>
    /\ result.ok <=> \E i \in 1..Len(calls) : Met(calls[i])
    /\ (result.ok /\ result.msg = "Merged with stream copy.")
         => Len(calls) = 1 /\ Met(calls[1])
    /\ (result.ok /\ result.msg = "Merged with re-encode.")
         => Len(calls) = 2 /\ Met(calls[2])
    /\ result.ok => result.msg \in {"Merged with stream copy.", "Merged with re-encode."}

\* C3, the case: the first call exited zero over an empty output, the
\* second exited non-zero over a non-empty output, and the result is failure
C3_Witness ==
  /\ ExecutorReturned
  /\ ~result.ok
  /\ Len(calls) = 2
  /\ calls[1].returncode = 0 /\ calls[1].exists /\ calls[1].size = 0
  /\ calls[2].returncode # 0 /\ calls[2].exists /\ calls[2].size > 0

\* the merge was attempted and neither strategy met the criterion
BothStrategiesFailed == Len(calls) = 2 /\ ~Met(calls[1]) /\ ~Met(calls[2])

MergeSucceeded == \E i \in 1..Len(calls) : Met(calls[i])

\* the scan left fewer than two inputs
NothingToDo == listed /\ Len(video_files) < 2

\* C4: when main() returns normally its value is 0, 1 or 2: 1 exactly when
\* ffmpeg is not on the search path, 2 exactly when a merge was attempted
\* and both strategies failed, 0 exactly when a merge succeeded or fewer
\* than two inputs remained.
C4_ExitCodes ==
  (Exited /\ status = "returned") =>
    /\ exitCode \in {0, 1, 2}
    /\ exitCode = 1 <=> ~found
    /\ exitCode = 2 <=> BothStrategiesFailed
    /\ exitCode = 0 <=> (MergeSucceeded \/ NothingToDo)

\* C4, the case: both strategies failed and main() returned 2
C4_Witness == Exited /\ status = "returned" /\ exitCode = 2 /\ BothStrategiesFailed

\* C5: when neither attempt succeeds the diagnostic is the first attempt's
\* error text if that is not empty, else the second's if that is not empty,
\* else the unknown-error sentinel; it is never empty.
C5_DiagnosticPreference ==
  (ExecutorReturned /\ ~result.ok) =>
    /\ Len(calls) = 2
    /\ calls[1].stderr # "" => result.msg = calls[1].stderr
    /\ (calls[1].stderr = "" /\ calls[2].stderr # "") => result.msg = calls[2].stderr
    /\ (calls[1].stderr = "" /\ calls[2].stderr = "")
         => result.msg = "Unknown error from ffmpeg"
    /\ result.msg # ""

\* C5, the case: both attempts wrote error text and the first one's is kept
C5_Witness ==
  /\ ExecutorReturned
  /\ ~result.ok
  /\ calls[1].stderr # ""
  /\ calls[2].stderr # ""
  /\ result.msg = calls[1].stderr

\* C6: when the stream-copy attempt fails and the re-encode attempt
\* succeeds, the outcome is success with the message "Merged with
\* re-encode.", main() returns 0, nothing is printed on standard error, and
\* the first attempt's error text is printed nowhere.
C6_ReencodeRecovers ==
  (Exited /\ Len(calls) = 2 /\ ~Met(calls[1]) /\ Met(calls[2])) =>
    /\ result = [ok |-> TRUE, msg |-> "Merged with re-encode."]
    /\ status = "returned"
    /\ exitCode = 0
    /\ stderr = <<>>
    /\ \A i \in 1..Len(stdout) : stdout[i] # calls[1].stderr
    /\ \E i \in 1..Len(stdout) : stdout[i] = "Merged with re-encode."

\* C6, the case: the failed stream copy wrote error text, the re-encode
\* succeeded and main() returned
C6_Witness ==
  /\ Exited
  /\ Len(calls) = 2
  /\ ~Met(calls[1])
  /\ calls[1].stderr # ""
  /\ Met(calls[2])

\* C7: when ffmpeg is not on the search path, main() returns 1 at once: it
\* has listed no directory, created no manifest and started no subprocess,
\* and the error is reported once.
C7_MissingToolStopsAtOnce ==
  (~found /\ pc # "start") =>
    /\ Exited
    /\ status = "returned"
    /\ exitCode = 1
    /\ ~listed
    /\ created = <<>>
    /\ list_file = <<>>
    /\ calls = <<>>
    /\ execTrace = <<>>
    /\ stderr = << "Error: ffmpeg is not installed or not in PATH.",
                   "Install via Homebrew: brew install ffmpeg" >>

\* C7, the case: ffmpeg is missing from a directory that holds enough videos
C7_Witness ==
  /\ ~found
  /\ Exited
  /\ Cardinality(VideoFiles(fs, Candidates(ListDir(fs, Cwd), args.include_hidden))) >= 2

\* the qualifying entries of the directory that are not the output path
RemainingInDir ==
  {n \in VideoFiles(fs, Candidates(ListDir(fs, Cwd), args.include_hidden)) :
     AbsPath(PathJoin(Cwd, n)) # output_path}

C9_InputListInvariant ==
  pc \in {"build", "copy"} =>
    /\ \A i \in 1..Len(video_files) : is_video_file(fs, PathJoin(Cwd, video_files[i]))
    /\ NoRepeats([i \in 1..Len(video_files) |-> AbsPath(PathJoin(Cwd, video_files[i]))])
    /\ \A i \in 1..Len(video_files) : AbsPath(PathJoin(Cwd, video_files[i])) # output_path
    /\ Len(video_files) >= 2
    /\ pc = "copy" => fs[list_file].data = ManifestLines(BuildArgs(video_files))

\* C9, the case: the output path is an existing video of the directory and
\* the manifest is about to be built without it
C9_Witness ==
  /\ pc = "build"
  /\ is_video_file(fs, output_path)
  /\ args.output # BaseName(output_path)

\* no two of the names have the same sort key
DistinctKeys(names) ==
  \A i, j \in 1..Len(names) :
     i # j => natural_sort_key(names[i]) # natural_sort_key(names[j])

\* a run after a run that merged successfully has finished its scan
ScannedAgain == run >= 2 /\ prev.merged /\ pc \notin {"start", "scan"}

\* C10, as claimed: run again with the same explicit --output after a
\* successful merge, main() merges again and its input list equals the
\* first run's input list.
C10_SameInputListOnRerun ==
  ScannedAgain => (video_files = prev.inputs /\ ~NothingToDo)

\* C10, amended: run again with the same explicit --output after a
\* successful merge, main() merges again (successfully when ffmpeg succeeds,
\* overwriting the output), and its inputs are the first run's inputs: the
\* same names, the first run's output not among them, in the same order
\* whenever no two names have equal sort keys; names with equal keys (c2.mp4
\* and C2.MP4) may swap when the directory lists them in another order.
C10_SameInputsOnRerun ==
  ScannedAgain =>
    /\ Range(video_files) = Range(prev.inputs)
    /\ Len(video_files) = Len(prev.inputs)
    /\ DistinctKeys(prev.inputs) => video_files = prev.inputs
    /\ \A i \in 1..Len(video_files) : AbsPath(PathJoin(Cwd, video_files[i])) # output_path
    /\ ~NothingToDo
    /\ (Exited /\ Len(calls) >= 1 /\ Met(calls[1])) =>
         /\ status = "returned"
         /\ exitCode = 0
         /\ IsFile(fs, output_path)
         /\ GetSize(fs, output_path) > 0

\* C10, the case: the second run merged successfully into the output the
\* first run had written
C10_Witness ==
  /\ run = 2
  /\ prev.merged
  /\ Exited
  /\ status = "returned"
  /\ exitCode = 0
  /\ MergeSucceeded
  /\ BaseName(output_path) \in ListDir(fs, Cwd)
  /\ args.output = BaseName(output_path)

(***************************************************************************)
(* The pure functions on their own: an input is drawn, the function is     *)
(* applied once, and main() is not running.                                *)
(***************************************************************************)
\* the variables of main(), which the studies of the pure functions hold still
runVars ==
  << fs, args, found, run, pc, listed, video_files, output_path, list_file,
     created, execTrace, calls, result, pending, removeFailed, status, exitCode,
     printed, stdout, stderr, prev >>

\* main() before it starts, in an empty directory
NoRun ==
  /\ fs = FsOf({})
  /\ args = [output |-> <<>>, include_hidden |-> FALSE]
  /\ found = TRUE
  /\ run = 1
  /\ pc = "start"
  /\ listed = FALSE
  /\ video_files = <<>>
  /\ output_path = <<>>
  /\ list_file = <<>>
  /\ created = <<>>
  /\ execTrace = <<>>
  /\ calls = <<>>
  /\ result = [ok |-> FALSE, msg |-> ""]
  /\ pending = "none"
  /\ removeFailed = FALSE
  /\ status = "running"
  /\ exitCode = -1
  /\ printed = <<>>
  /\ stdout = <<>>
  /\ stderr = <<>>
  /\ prev = NoPrev

(***************************************************************************)
(* video_files.sort(key=natural_sort_key), line 144, on its own.           *)
(***************************************************************************)
\* the file names the listings are drawn from: the three names of the
\* documented example; a name whose key equals that of clip2.mp4 (letter
\* case and a leading zero); a name with a superscript two between two
\* numbers; and two names that start with a digit, the key of the first a
\* proper prefix of the key of the second
NamePool ==
  { <<"c", "l", "i", "p", "1", ".", "m", "p", "4">>,
    <<"c", "l", "i", "p", "2", ".", "m", "p", "4">>,
    <<"c", "l", "i", "p", "1", "0", ".", "m", "p", "4">>,
    <<"C", "l", "i", "p", "0", "2", ".", "m", "p", "4">>,
    <<"1", SuperscriptTwo, "3", ".", "m", "p", "4">>,
    <<"2", ".", "t", "s">>,
    <<"2", ".", "t", "s", "2", ".", "t", "s">> }

\* every listing of at most MaxFiles names of the pool, in every order
Listings ==
  UNION {Orderings(S) : S \in {T \in SUBSET NamePool : Cardinality(T) <= MaxFiles}}

InitSort ==
  /\ NoRun
  /\ NoClient
  /\ given \in Listings
  /\ computed = <<>>

\* the sort of line 144 applied to the listing: it computes the key of every
\* name, and then it raises or leaves the list sorted
SortListing ==
  /\ computed = <<>>
  /\ computed' = << [ keys |-> Decorate(given),
                      raised |-> SortRaises(given),
                      sorted |-> IF SortRaises(given) THEN <<>> ELSE SortNatural(given) ] >>
  /\ UNCHANGED given
  /\ UNCHANGED runVars
  /\ UNCHANGED veoVars

NextSort == SortListing

SpecSort == InitSort /\ [][NextSort]_vars

\* the listing has been sorted, or the sort has raised
SortApplied == computed # <<>>

\* the k-th smallest element of a set of numbers
Kth(S, k) == CHOOSE x \in S : Cardinality({y \in S : y < x}) = k - 1

\* the reference splitting of a name: maximal runs of decimal digits and of
\* other characters, alternating, the first run a non-digit run (empty when
\* the name begins with a digit); no empty run anywhere else
RefRuns(s) ==
  LET starts == {i \in 1..Len(s) : i = 1 \/ IsDigit(s[i]) # IsDigit(s[i - 1])}
      n == Cardinality(starts)
      runs == [k \in 1..n |->
                 SubSeq(s, Kth(starts, k),
                        IF k = n THEN Len(s) ELSE Kth(starts, k + 1) - 1)]
  IN  IF Len(s) > 0 /\ IsDigit(s[1]) THEN <<<<>>>> \o runs ELSE runs

\* two runs at the same position have the same value: the same integer for
\* digit runs (even positions), the same text up to letter case otherwise
RefSameRun(k, x, y) ==
  IF k % 2 = 0 THEN IntOf(x) = IntOf(y) ELSE Lower(x) = Lower(y)

\* the reference order: the first position where the runs differ in value
\* decides, by integer value or by case-insensitive text; when none does,
\* the name with fewer runs comes first
RefLess(a, b) ==
  LET ra == RefRuns(a)
      rb == RefRuns(b)
      m == IF Len(ra) < Len(rb) THEN Len(ra) ELSE Len(rb)
      diff == {k \in 1..m : ~RefSameRun(k, ra[k], rb[k])}
  IN  IF diff = {} THEN Len(ra) < Len(rb)
      ELSE LET k == SetMin(diff)
           IN  IF k % 2 = 0 THEN IntOf(ra[k]) < IntOf(rb[k])
               ELSE StrLess(Lower(ra[k]), Lower(rb[k]))

ExampleListing ==
  << <<"c", "l", "i", "p", "2", ".", "m", "p", "4">>,
     <<"c", "l", "i", "p", "1", "0", ".", "m", "p", "4">>,
     <<"c", "l", "i", "p", "1", ".", "m", "p", "4">> >>

ExampleSorted ==
  << <<"c", "l", "i", "p", "1", ".", "m", "p", "4">>,
     <<"c", "l", "i", "p", "2", ".", "m", "p", "4">>,
     <<"c", "l", "i", "p", "1", "0", ".", "m", "p", "4">> >>

\* C11: for every pair of file names of a listing, computing and comparing
\* the keys natural_sort_key gives them never raises, and the first key is
\* smaller exactly when the first name comes first in the reference order
\* (alternating runs, digit runs by integer value, other runs by
\* case-insensitive text, fewer runs first); the listing clip2.mp4,
\* clip10.mp4, clip1.mp4 sorts to clip1.mp4, clip2.mp4, clip10.mp4
C11_KeyOrderIsReferenceOrder ==
  SortApplied =>
    /\ ~computed[1].raised
    /\ \A i, j \in 1..Len(given) :
         LET ki == natural_sort_key(given[i])
             kj == natural_sort_key(given[j])
         IN  /\ ~KeyRaises(ki)
             /\ KeyCmp(ki, kj) # "err"
             /\ KeyLess(ki, kj) <=> RefLess(given[i], given[j])
    /\ given = ExampleListing => computed[1].sorted = ExampleSorted

\* the same statement for the listings whose names hold no character that
\* str.isdigit accepts and int() rejects
C11_HoldsWithoutSuperscripts ==
  (SortApplied /\ \A i \in 1..Len(given) : SuperscriptTwo \notin Range(given[i])) =>
    /\ ~computed[1].raised
    /\ \A i, j \in 1..Len(given) :
         LET ki == natural_sort_key(given[i])
             kj == natural_sort_key(given[j])
         IN  /\ KeyCmp(ki, kj) # "err"
             /\ KeyLess(ki, kj) <=> RefLess(given[i], given[j])
    /\ given = ExampleListing => computed[1].sorted = ExampleSorted

\* the key line 144 computes for the i-th name of the listing
KeyAt(i) == computed[1].keys[i].key

\* the sort has returned: no key function call and no comparison raised
Sorted == SortApplied /\ ~computed[1].raised

\* the sorted list is the same whatever order os.listdir returns the same
\* names in
OrderOfSetOnly ==
  \A other \in Orderings(Range(given)) :
    ~SortRaises(other) /\ SortNatural(other) = computed[1].sorted

\* C12, as claimed: of any two distinct file names of a listing the sort
\* accepts exactly one
\* sorts strictly before the other, so the sorted list depends on the set of
\* names only and not on the order os.listdir returned them in
C12_TotalOrder ==
  Sorted =>
    /\ \A i, j \in 1..Len(given) :
         i # j => (KeyLess(KeyAt(i), KeyAt(j)) <=> ~KeyLess(KeyAt(j), KeyAt(i)))
    /\ OrderOfSetOnly

\* C12, amended: the sort raises exactly when the key of a name cannot be
\* computed; otherwise, of any two distinct file names exactly one of these
\* holds: the first sorts strictly before the second, the second strictly
\* before the first, or their keys are equal; and when no two names of the
\* listing have equal keys the sorted list depends on the set of names only
C12_TotalUpToEqualKeys ==
  SortApplied =>
    /\ computed[1].raised <=> \E i \in 1..Len(given) : KeyRaises(KeyAt(i))
    /\ Sorted =>
         /\ \A i, j \in 1..Len(given) :
              i # j =>
                /\ KeyCmp(KeyAt(i), KeyAt(j)) # "err"
                /\ Cardinality({ k \in 1..3 :
                       \/ k = 1 /\ KeyLess(KeyAt(i), KeyAt(j))
                       \/ k = 2 /\ KeyLess(KeyAt(j), KeyAt(i))
                       \/ k = 3 /\ KeyAt(i) = KeyAt(j) }) = 1
         /\ DistinctKeys(given) => OrderOfSetOnly

\* three names are sorted, two of them with equal keys, and another order of
\* the same names sorts to another list
C12_Witness ==
  /\ Sorted
  /\ Len(given) = 3
  /\ ~DistinctKeys(given)
  /\ given # computed[1].sorted
  /\ ~OrderOfSetOnly

\* neither of two names of the listing sorts strictly before the other
Incomparable(i, j) == ~KeyLess(KeyAt(i), KeyAt(j)) /\ ~KeyLess(KeyAt(j), KeyAt(i))

\* where the name x stands in the listing (the names of a listing are distinct)
PlaceIn(names, x) == CHOOSE i \in 1..Len(names) : names[i] = x

\* C13: on the names of a listing the sort accepts, "the key of a is smaller
\* than the key of b" is a strict weak ordering (irreflexive, transitive, and
\* incomparability is transitive), and the sorted list holds the same names
\* in non-decreasing key order with names of equal keys in listing order
C13_StrictWeakOrderAndStableSort ==
  Sorted =>
    LET n == Len(given)
        sorted == computed[1].sorted
    IN  /\ \A i \in 1..n : ~KeyLess(KeyAt(i), KeyAt(i))
        /\ \A i, j, k \in 1..n :
             /\ (KeyLess(KeyAt(i), KeyAt(j)) /\ KeyLess(KeyAt(j), KeyAt(k)))
                  => KeyLess(KeyAt(i), KeyAt(k))
             /\ (Incomparable(i, j) /\ Incomparable(j, k)) => Incomparable(i, k)
        /\ Len(sorted) = n
        /\ Range(sorted) = Range(given)
        /\ \A p, q \in 1..n :
             p < q =>
               LET kp == KeyAt(PlaceIn(given, sorted[p]))
                   kq == KeyAt(PlaceIn(given, sorted[q]))
               IN  /\ ~KeyLess(kq, kp)
                   /\ ~KeyLess(kp, kq) => PlaceIn(given, sorted[p]) < PlaceIn(given, sorted[q])

\* three names are sorted into another order, two of them with equal keys
\* that the listing did not hold next to each other
C13_Witness ==
  /\ Sorted
  /\ Len(given) = 3
  /\ Incomparable(1, 3)
  /\ ~Incomparable(1, 2)
  /\ given # computed[1].sorted

(***************************************************************************)
(* One line of build_filelist_file, lines 50-53, on its own.               *)
(***************************************************************************)
\* the characters of the file names the manifest line is studied on: a
\* letter, the single quote, the backslash, the space and the newline
NameChars == {"a", "'", "\\", " ", "\n"}

\* every file name of 1..MaxNameLen of these characters
QuotedNames == UNION {[1..n -> NameChars] : n \in 1..MaxNameLen}

\* the path is os.path.join(cwd, f) for a file name f, as line 170 passes it
InitManifest ==
  /\ NoRun
  /\ NoClient
  /\ given \in {PathJoin(Cwd, name) : name \in QuotedNames}
  /\ computed = <<>>

\* one turn of the loop of lines 49-53: the line written for the path
WriteManifestLine ==
  /\ computed = <<>>
  /\ computed' = <<ManifestLine(given)>>
  /\ UNCHANGED given
  /\ UNCHANGED runVars
  /\ UNCHANGED veoVars

NextManifest == WriteManifestLine

SpecManifest == InitManifest /\ [][NextManifest]_vars

RECURSIVE Unquote(_, _, _)
\* the quoting rule of the manifest format read over the text after the
\* directive: inside single quotes every character is literal up to the
\* closing quote; outside quotes a backslash makes the next character
\* literal, a quote opens a quoted string and white space ends the word.
\* The result is the word, or not ok for an unterminated quoted string, a
\* dangling backslash or text after the word.
Unquote(rest, inQuote, word) ==
  IF Len(rest) = 0 THEN [ok |-> ~inQuote, path |-> word]
  ELSE LET c == Head(rest)
       IN  IF inQuote
             THEN IF c = "'" THEN Unquote(Tail(rest), FALSE, word)
                  ELSE Unquote(Tail(rest), TRUE, Append(word, c))
           ELSE IF c = "'" THEN Unquote(Tail(rest), TRUE, word)
           ELSE IF c = "\\"
             THEN IF Len(rest) < 2 THEN [ok |-> FALSE, path |-> word]
                  ELSE Unquote(Drop(rest, 2), FALSE, Append(word, rest[2]))
           ELSE IF c \in {" ", "\n"}
             THEN [ok |-> Tail(rest) = <<>> /\ c = "\n", path |-> word]
           ELSE Unquote(Tail(rest), FALSE, Append(word, c))

\* a manifest line read back: the directive "file", a space, one word
ParseManifestLine(line) ==
  IF ~StartsWith(line, <<"f", "i", "l", "e", " ">>) THEN [ok |-> FALSE, path |-> <<>>]
  ELSE Unquote(Drop(line, 5), FALSE, <<>>)

\* the manifest line of the path has been written
LineWritten == computed # <<>>

\* C14: the manifest line build_filelist_file writes for a path, read back
\* with the quoting rule of the format, is well formed (no unterminated
\* quoted string) and names exactly the absolute path it was written for,
\* whatever single quotes the path holds
C14_ManifestLineRoundTrip ==
  LineWritten =>
    LET parsed == ParseManifestLine(computed[1])
    IN  /\ parsed.ok
        /\ parsed.path = AbsPath(given)
        /\ parsed.path = given

\* a line is written for a path with two single quotes that are not next to
\* each other
C14_Witness ==
  /\ LineWritten
  /\ Cardinality(Positions(given, "'")) = 2
  /\ \E i \in Positions(given, "'") : i + 2 \in Positions(given, "'")
  /\ Len(computed[1]) = Len(given) + 8 + 6

(***************************************************************************)
(* is_video_file, lines 25-29, on its own.                                 *)
(***************************************************************************)
\* str.upper on one character
UpperChar(c) ==
  IF Ord(c) >= Ord("a") /\ Ord(c) <= Ord("z")
    THEN Ascii[Ord("A") + (Ord(c) - Ord("a"))]
    ELSE c

\* str.upper
Upper(s) == [i \in 1..Len(s) |-> UpperChar(s[i])]

\* str.capitalize of an extension: the first letter after the dot upper-cased
Capital(s) == [i \in 1..Len(s) |-> IF i = 2 THEN UpperChar(s[i]) ELSE s[i]]

\* what the names end in: every supported extension in lower case, upper
\* case and mixed case, and endings that are not supported extensions
Endings ==
  SUPPORTED_EXTENSIONS
    \cup {Upper(e) : e \in SUPPORTED_EXTENSIONS}
    \cup {Capital(e) : e \in SUPPORTED_EXTENSIONS}
    \cup { <<>>, <<".">>, <<".", "t", "x", "t">>, <<".", "m", "p", "3">>,
           <<".", "m", "p", "4", "x">>, <<"m", "p", "4">>, <<"_", "t", "s">> }

\* what the names begin with: a plain stem, a hidden one, one with a dot
\* inside, one that ends in a supported extension, and nothing at all
Stems ==
  { <<"a">>, <<".", "h">>, <<"a", ".", "b">>, <<"a", ".", "m", "p", "4">>, <<>> }

\* what is at the path: a regular file, an empty regular file, a directory,
\* or nothing
Kinds == {"file", "empty", "dir", "absent"}

ProbeFs(name, kind) ==
  IF kind = "absent" THEN FsOf({})
  ELSE FsOf({ [ name |-> name,
                rec |-> IF kind = "file" THEN RegularFile
                        ELSE IF kind = "empty" THEN EmptyFile
                        ELSE Directory ] })

InitIsVideo ==
  /\ NoRun
  /\ NoClient
  /\ given \in { [name |-> stem \o ending, kind |-> kind] :
                   stem \in Stems, ending \in Endings, kind \in Kinds }
  /\ given.name # <<>>
  /\ computed = <<>>

\* is_video_file(os.path.join(cwd, f)), as line 141 calls it
CheckIsVideo ==
  /\ computed = <<>>
  /\ computed' = <<is_video_file(ProbeFs(given.name, given.kind), PathJoin(Cwd, given.name))>>
  /\ UNCHANGED given
  /\ UNCHANGED runVars
  /\ UNCHANGED veoVars

NextIsVideo == CheckIsVideo

SpecIsVideo == InitIsVideo /\ [][NextIsVideo]_vars

\* the allow-list of the claim, without the dots
AllowList ==
  { <<"m", "p", "4">>, <<"m", "o", "v">>, <<"m", "k", "v">>, <<"a", "v", "i">>,
    <<"w", "e", "b", "m">>, <<"m", "4", "v">>, <<"t", "s">>, <<"m", "t", "s">>,
    <<"m", "2", "t", "s">>, <<"3", "g", "p">> }

\* the name has an extension in the allow-list, whatever its letter case: the
\* text after its last dot, when something other than dots stands before
\* that dot
AllowedName(name) ==
  /\ Positions(name, ".") # {}
  /\ LET last == SetMax(Positions(name, "."))
     IN  /\ \E k \in 1..(last - 1) : name[k] # "."
         /\ Lower(Drop(name, last)) \in AllowList

IsVideoChecked == computed # <<>>

\* C15: is_video_file is true exactly for a regular file whose extension,
\* compared case-insensitively, is in the allow-list; it is false, and does
\* not raise, for a path that does not exist, false for a directory and for
\* a .txt file, and true for a.MP4
C15_IsVideoFile ==
  IsVideoChecked =>
    /\ computed[1] \in BOOLEAN
    /\ computed[1] <=> (given.kind \in {"file", "empty"} /\ AllowedName(given.name))
    /\ given.kind = "absent" => ~computed[1]
    /\ given.kind = "dir" => ~computed[1]
    /\ given.name = <<"a", ".", "t", "x", "t">> => ~computed[1]
    /\ (given.name = <<"a", ".", "M", "P", "4">> /\ given.kind = "file") => computed[1]

\* is_video_file has answered True for the regular file a.MP4
C15_Witness ==
  /\ IsVideoChecked
  /\ given = [name |-> <<"a", ".", "M", "P", "4">>, kind |-> "file"]
  /\ computed[1]

(***************************************************************************)
(* The properties of one run of main(), continued.                         *)
(***************************************************************************)
\* C16: when os.remove fails in the finally block, main() still leaves the
\* way the try block was leaving: it returns 0 after a successful merge and
\* 2 after both strategies failed, and when run_ffmpeg_concat raised it is
\* that exception that leaves main(); the failed removal adds no exception
\* and changes no exit code
C16_CleanupFailureNotEscalated ==
  (Exited /\ removeFailed) =>
    /\ pending \in {"return", "raise"}
    /\ pending = "return" =>
         /\ status = "returned"
         /\ exitCode = (IF result.ok THEN 0 ELSE 2)
         /\ exitCode = 0 <=> MergeSucceeded
         /\ exitCode = 2 <=> BothStrategiesFailed
    /\ pending = "raise" =>
         /\ status = "raised"
         /\ exitCode = -1
         /\ execTrace[Len(execTrace)] \in {"AttemptCopy", "AttemptReencode"}

\* os.remove failed after both strategies had failed, and main() returned 2
\* with the manifest still on disk
C16_Witness ==
  /\ Exited
  /\ removeFailed
  /\ BothStrategiesFailed
  /\ status = "returned"
  /\ exitCode = 2
  /\ Exists(fs, list_file)

(***************************************************************************)
(* One run of main() in a directory with hidden entries.                   *)
(***************************************************************************)
\* the entries the directory may hold: two videos, a hidden video, a hidden
\* text file and a hidden directory with a video extension
HiddenUniverse ==
  { [name |-> <<"a", "1", ".", "m", "p", "4">>, rec |-> RegularFile],
    [name |-> <<"a", "2", ".", "m", "p", "4">>, rec |-> RegularFile],
    [name |-> <<".", "h", ".", "m", "k", "v">>, rec |-> RegularFile],
    [name |-> <<".", "n", ".", "t", "x", "t">>, rec |-> RegularFile],
    [name |-> <<".", "d", ".", "m", "o", "v">>, rec |-> Directory] }

InitHidden ==
  /\ fs \in {FsOf(S) : S \in {T \in SUBSET HiddenUniverse : Cardinality(T) <= MaxFiles}}
  /\ args \in [output : {<<>>, <<"m", ".", "m", "p", "4">>}, include_hidden : BOOLEAN]
  /\ found \in BOOLEAN
  /\ run = 1
  /\ pc = "start"
  /\ listed = FALSE
  /\ video_files = <<>>
  /\ output_path = <<>>
  /\ list_file = <<>>
  /\ created = <<>>
  /\ execTrace = <<>>
  /\ calls = <<>>
  /\ result = [ok |-> FALSE, msg |-> ""]
  /\ pending = "none"
  /\ removeFailed = FALSE
  /\ status = "running"
  /\ exitCode = -1
  /\ printed = <<>>
  /\ stdout = <<>>
  /\ stderr = <<>>
  /\ prev = NoPrev
  /\ given = <<>>
  /\ computed = <<>>
  /\ NoClient

SpecHidden == InitHidden /\ [][Next]_vars

\* the name begins with a dot
Hidden(name) == StartsWith(name, <<".">>)

\* the directory entries other than the output file
EntriesButOutput == {n \in ListDir(fs, Cwd) : AbsPath(PathJoin(Cwd, n)) # output_path}

\* C17: once the directory is scanned, without --include-hidden no name that
\* begins with a dot is in the input list; with --include-hidden an entry
\* that begins with a dot is in the input list exactly when is_video_file
\* accepts it, like any other entry
C17_HiddenEntries ==
  listed =>
    /\ ~args.include_hidden =>
         /\ \A i \in 1..Len(video_files) : ~Hidden(video_files[i])
         /\ \A i \in 1..Len(printed) : ~Hidden(printed[i])
         /\ \A n \in EntriesButOutput :
              n \in Range(video_files)
                <=> (~Hidden(n) /\ is_video_file(fs, PathJoin(Cwd, n)))
    /\ args.include_hidden =>
         \A n \in EntriesButOutput :
           n \in Range(video_files) <=> is_video_file(fs, PathJoin(Cwd, n))

\* with --include-hidden the hidden video is an input of the merge and the
\* hidden text file next to it is not
C17_Witness ==
  /\ listed
  /\ args.include_hidden
  /\ pc = "copy"
  /\ <<".", "h", ".", "m", "k", "v">> \in Range(video_files)
  /\ <<".", "n", ".", "t", "x", "t">> \in ListDir(fs, Cwd) \ Range(video_files)

\* build_filelist_file has returned and the manifest is on disk
ManifestBuilt == list_file # <<>> /\ Exists(fs, list_file)

\* the names are in non-decreasing order of their natural sort keys
NaturallySorted(names) ==
  \A p, q \in 1..Len(names) :
    p < q => ~KeyLess(natural_sort_key(names[q]), natural_sort_key(names[p]))

\* C18: while the manifest that build_filelist_file returned is on disk, it
\* holds exactly one line per input; the i-th line names the absolute path
\* of the i-th file name printed as a progress line, which is the i-th
\* element of video_files: the video files of the directory in natural sort
\* order, the output file left out
C18_ManifestMatchesPrintedOrder ==
  ManifestBuilt =>
    LET data == fs[list_file].data
    IN  /\ Len(data) = Len(printed)
        /\ Len(data) = Len(video_files)
        /\ \A i \in 1..Len(data) :
             /\ ParseManifestLine(data[i]).ok
             /\ ParseManifestLine(data[i]).path = AbsPath(PathJoin(Cwd, printed[i]))
             /\ printed[i] = video_files[i]
             /\ AbsPath(PathJoin(Cwd, video_files[i])) # output_path
        /\ NaturallySorted(video_files)
        /\ NoRepeats(video_files)
        /\ Range(video_files)
             = {n \in EntriesButOutput :
                  /\ n # BaseName(list_file)
                  /\ args.include_hidden \/ ~Hidden(n)
                  /\ is_video_file(fs, PathJoin(Cwd, n))}

\* a manifest of three lines is on disk and the names it was built from did
\* not all have different keys
C18_Witness ==
  /\ ManifestBuilt
  /\ Len(fs[list_file].data) = 3
  /\ Len(printed) = 3
  /\ ~DistinctKeys(printed)

\* C19, as claimed: a manifest file that a run created is gone from the disk
\* when the run ends, whichever step failed, also when build_filelist_file
\* itself raised after NamedTemporaryFile had created the file (the run in
\* which os.remove fails is left aside: it is the case of C1)
C19_CreatedManifestDeleted ==
  (Exited /\ created # <<>> /\ ~removeFailed) => ~Exists(fs, created)

\* the same statement for the runs in which build_filelist_file returned
C19_DeletedOnceReturned ==
  (Exited /\ list_file # <<>> /\ ~removeFailed) => ~Exists(fs, list_file)

\* run_ffmpeg_concat has been entered
ExecutorEntered == Len(execTrace) > 0

\* run_ffmpeg_concat has returned Success or Failure, or has raised
ExecutorEnded ==
  /\ ExecutorEntered
  /\ \/ execTrace[Len(execTrace)] \in {"Success", "Failure"}
     \/ pending = "raise"

\* the executor's use of the manifest and of the external processes
ExecutorDiscipline ==
  /\ Len(calls) <= 2
  /\ \A i \in 1..Len(calls) :
       /\ calls[i].strategy = (IF i = 1 THEN "copy" ELSE "reencode")
       /\ calls[i].manifest = list_file
       /\ calls[i].output = output_path
  /\ pc = "copy" => Len(calls) = 0
  /\ pc = "reencode" => Len(calls) = 1
  /\ pc \in {"copy", "reencode", "cleanup"} =>
       /\ Exists(fs, list_file)
       /\ fs[list_file] = ManifestFile(BuildArgs(video_files))
  /\ (ExecutorEntered /\ ~Exists(fs, list_file)) => (Exited /\ ExecutorEnded)

\* C20: a run starts at most two external processes, the stream copy and
\* then, only once that one has ended, the re-encode; both are given the
\* same manifest and the same output path; the manifest is on disk with the
\* content build_filelist_file wrote from before the first process until
\* after the last, and is gone only once the executor has returned Success
\* or Failure or has raised; and, every subprocess coming back, an executor
\* that was entered reaches Success or Failure or raises
C20_ExecutorDisciplineAndTermination ==
  /\ []ExecutorDiscipline
  /\ ExecutorEntered ~> ExecutorEnded

\* both processes have run and ended, and the manifest is still on disk
\* before the cleanup
C20_Witness ==
  /\ pc = "cleanup"
  /\ Len(calls) = 2
  /\ ExecutorEnded
  /\ Exists(fs, list_file)
  /\ fs[list_file].size >= 2

\* the absolute paths of the files of the input list
InputPaths == {AbsPath(PathJoin(Cwd, video_files[i])) : i \in 1..Len(video_files)}

\* the paths that one step creates, removes or leaves with another content
Touched ==
  {p \in (DOMAIN fs) \cup (DOMAIN fs') :
     \/ p \notin DOMAIN fs
     \/ p \notin DOMAIN fs'
     \/ fs[p] # fs'[p]}

\* the external tool is running or has run on the input list
ToolGivenInputs == pc \in {"copy", "reencode", "cleanup"} \/ Len(calls) > 0

\* no input of the external tool is the path it writes
OutputIsNoInput ==
  ToolGivenInputs =>
    /\ output_path \notin InputPaths
    /\ \A i \in 1..Len(calls) : calls[i].output \notin InputPaths
    /\ \A i \in 1..Len(video_files) : Exists(fs, AbsPath(PathJoin(Cwd, video_files[i])))

\* C21: every step of a run creates, changes or removes nothing but the
\* run's own manifest file and the resolved output path, and never a file of
\* the input list; the output path is never an input of the external tool
C21_OnlyManifestAndOutputTouched ==
  /\ []OutputIsNoInput
  /\ [][ \A p \in Touched :
           /\ p = created' \/ p = output_path
           /\ p \notin InputPaths ]_vars

\* the merge wrote the output over an existing video of the directory that
\* --output names with another spelling, and left the two inputs as they were
C21_Witness ==
  /\ Exited
  /\ MergeSucceeded
  /\ args.output = <<".", "/", "c", "2", ".", "m", "p", "4">>
  /\ Len(video_files) = 2
  /\ \A p \in InputPaths : Exists(fs, p) /\ fs[p] = RegularFile
  /\ ~Exists(fs, created)

(***************************************************************************)
(* video_2.py: VeoVideoGenerator.  merge.py is not running.  Time is       *)
(* counted in units of 10 microseconds, in which the poll intervals        *)
(* 10, 12, 14.4, 17.28, 20.736, 24.8832, 29.85984 and 30 seconds are whole *)
(* numbers.                                                                *)
(***************************************************************************)
Seconds(n) == n * 100000

\* how long a poll request that fails may have taken
RequestTimes == {0, Seconds(4)}

\* a variant of Truthy that takes every value
TruthyAlways(value) == TRUE

\* "if not value": None and the empty string are false
Truthy(value) == value # ""

\* poll_interval = min(poll_interval * 1.2, 30)
Backoff(interval) ==
  IF (interval * 12) \div 10 < Seconds(30) THEN (interval * 12) \div 10 ELSE Seconds(30)

\* the JSON a poll may answer with: an error field or none, the done flag
\* set or not, and under a done answer the URI, an empty URI, a missing key
\* on the way to it, or an empty list of generatedSamples
Responses ==
  { [error |-> TRUE, done |-> FALSE, body |-> "nokey"],
    [error |-> TRUE, done |-> TRUE, body |-> "uri"],
    [error |-> FALSE, done |-> FALSE, body |-> "nokey"],
    [error |-> FALSE, done |-> TRUE, body |-> "uri"],
    [error |-> FALSE, done |-> TRUE, body |-> "emptyuri"],
    [error |-> FALSE, done |-> TRUE, body |-> "nokey"],
    [error |-> FALSE, done |-> TRUE, body |-> "nosample"] }

\* lines 136-160: what wait_for_completion does with one answer.  The
\* subscripts of line 149 raise KeyError for a missing key, which line 152
\* catches, and IndexError for an empty generatedSamples list, which nothing
\* catches.
AfterPoll(response) ==
  IF response.error THEN "error"
  ELSE IF response.done
    THEN IF response.body \in {"uri", "emptyuri"} THEN "uri"
         ELSE IF response.body = "nokey" THEN "nouri"
         ELSE "raised"
  ELSE "again"

\* the value of line 149
UriOf(response) == IF response.body = "uri" THEN "files/v1" ELSE ""

\* lines 225-238: the downloaded file is there and not empty
Verified(file) == file.exists /\ file.size > 0

\* generate_and_download is called: the default max_wait_time of line 109,
\* and at output_filename nothing or an older file
InitVeo ==
  /\ NoRun
  /\ given = <<>>
  /\ computed = <<>>
  /\ vpc = "generate"
  /\ operation_name = ""
  /\ video_uri = ""
  /\ max_wait_time = Seconds(600)
  /\ elapsed = 0
  /\ poll_interval = 0
  /\ polls = 0
  /\ failures = 0
  /\ poll_data = NoData
  /\ waited = "no"
  /\ steps = <<>>
  /\ ended = "running"
  /\ success = FALSE
  /\ downloaded_size = 0
  /\ saved \in {Absent, [exists |-> TRUE, size |-> 1]}

\* line 269, generate_video: the operation name of the answer, or None when
\* the answer has no name or the request failed
GenerateVideo ==
  /\ vpc = "generate"
  /\ steps' = Append(steps, "generate")
  /\ operation_name' \in {"operations/op1", ""}
  /\ vpc' = "generated"
  /\ UNCHANGED << video_uri, max_wait_time, elapsed, poll_interval, polls, failures, poll_data,
                  waited, ended, success, downloaded_size, saved >>
  /\ UNCHANGED runVars
  /\ UNCHANGED pureVars

\* lines 270-274 and 120-124: return False without an operation name, else
\* enter wait_for_completion
CheckOperation ==
  /\ vpc = "generated"
  /\ IF Truthy(operation_name)
       THEN /\ steps' = Append(steps, "wait")
            /\ elapsed' = 0
            /\ poll_interval' = Seconds(10)
            /\ vpc' = "loop"
            /\ UNCHANGED << ended, success >>
       ELSE /\ ended' = "returned"
            /\ success' = FALSE
            /\ vpc' = "done"
            /\ UNCHANGED << steps, elapsed, poll_interval >>
  /\ UNCHANGED << operation_name, video_uri, max_wait_time, polls, failures, poll_data, waited,
                  downloaded_size, saved >>
  /\ UNCHANGED runVars
  /\ UNCHANGED pureVars

\* line 126: the loop goes on while the elapsed time is below max_wait_time;
\* otherwise lines 166-167 return None
LoopCheck ==
  /\ vpc = "loop"
  /\ IF elapsed < max_wait_time
       THEN /\ vpc' = "request"
            /\ UNCHANGED << waited, video_uri >>
       ELSE /\ waited' = "timeout"
            /\ video_uri' = ""
            /\ vpc' = "waited"
  /\ UNCHANGED << operation_name, max_wait_time, elapsed, poll_interval, polls, failures,
                  poll_data, steps, ended, success, downloaded_size, saved >>
  /\ UNCHANGED runVars
  /\ UNCHANGED pureVars

\* lines 130-160: requests.get answers with JSON.  An error field or a done
\* flag ends wait_for_completion; otherwise it sleeps, lengthens the
\* interval and goes back to line 126.  The IndexError of line 149 leaves
\* wait_for_completion and generate_and_download.
PollResponds ==
  /\ vpc = "request"
  /\ \E response \in Responses :
       /\ poll_data' = response
       /\ polls' = polls + 1
       /\ LET next == AfterPoll(response)
          IN  IF next = "again"
                THEN /\ elapsed' = elapsed + poll_interval
                     /\ poll_interval' = Backoff(poll_interval)
                     /\ vpc' = "loop"
                     /\ UNCHANGED << waited, video_uri, ended >>
              ELSE /\ UNCHANGED elapsed
                   /\ waited' = next
                   /\ video_uri' = IF next = "uri" THEN UriOf(response) ELSE ""
                   /\ IF next = "raised"
                        THEN ended' = "raised" /\ vpc' = "done"
                        ELSE vpc' = "waited" /\ UNCHANGED ended
                   /\ UNCHANGED poll_interval
  /\ UNCHANGED << operation_name, max_wait_time, failures, steps, success,
                  downloaded_size, saved >>
  /\ UNCHANGED runVars
  /\ UNCHANGED pureVars

\* lines 162-164: requests.get or raise_for_status raises RequestException,
\* at once or after a while; wait_for_completion sleeps the same interval
\* and goes back to line 126
PollFails ==
  /\ vpc = "request"
  /\ failures < MaxPollFailures
  /\ \E took \in RequestTimes : elapsed' = elapsed + took + poll_interval
  /\ polls' = polls + 1
  /\ failures' = failures + 1
  /\ vpc' = "loop"
  /\ UNCHANGED << operation_name, video_uri, max_wait_time, poll_interval, poll_data,
                  waited, steps, ended, success, downloaded_size, saved >>
  /\ UNCHANGED runVars
  /\ UNCHANGED pureVars

\* lines 275-279: return False without a video URI, else enter download_video;
\* the local variables of wait_for_completion are gone
CheckUri ==
  /\ vpc = "waited"
  /\ IF Truthy(video_uri)
       THEN /\ steps' = Append(steps, "download")
            /\ vpc' = "download"
            /\ UNCHANGED << ended, success >>
       ELSE /\ ended' = "returned"
            /\ success' = FALSE
            /\ vpc' = "done"
            /\ UNCHANGED steps
  /\ elapsed' = 0
  /\ poll_interval' = 0
  /\ UNCHANGED << operation_name, video_uri, max_wait_time, polls, failures,
                  poll_data, waited, downloaded_size, saved >>
  /\ UNCHANGED runVars
  /\ UNCHANGED pureVars

\* lines 204-210 and 240-245: the download request fails before the file is
\* opened; download_video returns False and generate_and_download returns it
DownloadRequestFails ==
  /\ vpc = "download"
  /\ ended' = "returned"
  /\ success' = FALSE
  /\ vpc' = "done"
  /\ UNCHANGED << operation_name, video_uri, max_wait_time, elapsed, poll_interval,
                  polls, failures, poll_data, waited, steps, downloaded_size, saved >>
  /\ UNCHANGED runVars
  /\ UNCHANGED pureVars

\* lines 213-238 and 281-291: the file is opened (and so emptied), the chunks
\* of the answer are written, and the file is verified; an empty file is
\* removed
DownloadVideo ==
  /\ vpc = "download"
  /\ \E chunks \in 0..2 :
       LET file == [exists |-> TRUE, size |-> chunks]
       IN  /\ downloaded_size' = chunks
           /\ saved' = IF file.size > 0 THEN file ELSE Absent
           /\ success' = Verified(file)
  /\ ended' = "returned"
  /\ vpc' = "done"
  /\ UNCHANGED << operation_name, video_uri, max_wait_time, elapsed, poll_interval,
                  polls, failures, poll_data, waited, steps >>
  /\ UNCHANGED runVars
  /\ UNCHANGED pureVars

\* line 215 and lines 240-245: the connection breaks while the chunks are
\* read; what was written stays on disk and download_video returns False
DownloadBreaks ==
  /\ vpc = "download"
  /\ \E chunks \in 0..1 :
       /\ downloaded_size' = chunks
       /\ saved' = [exists |-> TRUE, size |-> chunks]
  /\ ended' = "returned"
  /\ success' = FALSE
  /\ vpc' = "done"
  /\ UNCHANGED << operation_name, video_uri, max_wait_time, elapsed, poll_interval,
                  polls, failures, poll_data, waited, steps >>
  /\ UNCHANGED runVars
  /\ UNCHANGED pureVars

\* line 213: open raises OSError, which nothing catches
DownloadOpenFails ==
  /\ vpc = "download"
  /\ ended' = "raised"
  /\ vpc' = "done"
  /\ UNCHANGED << operation_name, video_uri, max_wait_time, elapsed, poll_interval,
                  polls, failures, poll_data, waited, steps, success, downloaded_size, saved >>
  /\ UNCHANGED runVars
  /\ UNCHANGED pureVars

NextVeo ==
  \/ GenerateVideo
  \/ CheckOperation
  \/ LoopCheck
  \/ PollResponds
  \/ PollFails
  \/ CheckUri
  \/ DownloadRequestFails
  \/ DownloadVideo
  \/ DownloadBreaks
  \/ DownloadOpenFails

\* one call of generate_and_download
SpecVeo == InitVeo /\ [][NextVeo]_vars


\* the polling of wait_for_completion with a scheduler that lets every
\* request end and every sleep return
SpecVeoLive == SpecVeo /\ WF_vars(NextVeo)

WorkflowSteps == <<"generate", "wait", "download">>

Started(step) == \E i \in 1..Len(steps) : steps[i] = step

\* the steps entered so far are the first steps of the workflow, in its order
StepsInOrder ==
  /\ Len(steps) <= Len(WorkflowSteps)
  /\ \A i \in 1..Len(steps) : steps[i] = WorkflowSteps[i]

\* C22: generate_and_download enters generate_video, wait_for_completion and
\* download_video in this order and each at most once; wait_for_completion is
\* entered, and the operation polled, only with an operation name;
\* download_video is entered, and a file written, only with a video URI that
\* wait_for_completion returned; once a step has failed no later step is
\* entered and True is not returned; and True is returned only when all
\* three steps were entered and the download wrote the non-empty file that is
\* on disk.
C22_StepsInOrderAndStopAtFirstFailure ==
  /\ StepsInOrder
  /\ (Started("wait") \/ polls > 0) => (Started("generate") /\ operation_name # "")
  /\ polls > 0 => Started("wait")
  /\ Started("download") => (Started("wait") /\ waited = "uri" /\ video_uri # "")
  /\ downloaded_size > 0 => Started("download")
  /\ (vpc = "done" /\ operation_name = "") =>
        (steps = <<"generate">> /\ polls = 0 /\ ended = "returned" /\ ~success)
  /\ (vpc = "done" /\ waited \in {"error", "nouri", "timeout", "raised"}) =>
        (steps = <<"generate", "wait">> /\ ~success /\ downloaded_size = 0)
  /\ (vpc = "done" /\ waited = "uri" /\ video_uri = "") =>
        (steps = <<"generate", "wait">> /\ ended = "returned" /\ ~success)
  /\ success =>
        /\ ended = "returned"
        /\ steps = WorkflowSteps
        /\ operation_name # ""
        /\ video_uri # ""
        /\ downloaded_size > 0
        /\ saved = [exists |-> TRUE, size |-> downloaded_size]
  /\ ended = "running" => ~success

\* a workflow that polled three times, one of them a failed request, and
\* returned True with the file on disk
C22_Witness ==
  /\ vpc = "done"
  /\ ended = "returned"
  /\ success
  /\ polls = 3
  /\ failures = 1
  /\ saved.size = 2

\* C23: wait_for_completion ends only by returning: a URI only from an answer
\* without an error field and with the done flag set, None when the answer
\* has an error field or is done without the URI keys, and None for the
\* timeout only when the elapsed time has reached max_wait_time; it never
\* leaves by an exception.
C23_WaitReturnsUriOrNone ==
  /\ waited # "raised"
  /\ waited = "uri" => (~poll_data.error /\ poll_data.done)
  /\ waited = "error" => (poll_data.error /\ video_uri = "")
  /\ waited = "nouri" => (~poll_data.error /\ poll_data.done /\ video_uri = "")
  /\ (waited = "timeout" /\ vpc = "waited") =>
        (elapsed >= max_wait_time /\ video_uri = "")

\* what C23 says of every answer but a done one with an empty list of
\* generatedSamples
C23_HoldsWithSamples ==
  /\ waited = "raised" => poll_data.body = "nosample"
  /\ waited = "uri" => (~poll_data.error /\ poll_data.done)
  /\ waited = "error" => (poll_data.error /\ video_uri = "")
  /\ waited = "nouri" => (~poll_data.error /\ poll_data.done /\ video_uri = "")
  /\ (waited = "timeout" /\ vpc = "waited") =>
        (elapsed >= max_wait_time /\ video_uri = "")
  /\ vpc = "request" => elapsed < max_wait_time

\* wait_for_completion is left, by a return or by the exception
C23_WaitEnds == Started("wait") ~> (waited # "no")

\* after a failed request or a not-done answer the loop sleeps and tests the
\* elapsed time again
C23_PollsAgain ==
  [][vpc = "request" /\ vpc' = "loop" =>
        /\ elapsed' >= elapsed + poll_interval
        /\ poll_interval' >= poll_interval
        /\ waited' = "no"]_vars

====
